---- MODULE Spec2Model ----
(***************************************************************************)
(* A model of the finite-field core (src/src/ff/mod.rs) and of the radix-2 *)
(* evaluation domain (src/src/fft/domain/radix2.rs).                       *)
(*                                                                         *)
(* Field elements are residues 0..MODULUS-1 of a small prime field; the    *)
(* parameter set of the field (FftParameters/FpParameters) is the record   *)
(* fld, drawn from FieldParams.  Machine integers keep a (scaled) width:   *)
(* usize has UsizeBits bits and a u64 limb of an exponent has LimbBits     *)
(* bits.  build is the profile the crate was compiled with: integer        *)
(* overflow aborts in a debug build and wraps in a release build.          *)
(***************************************************************************)
EXTENDS Integers, Sequences, FiniteSets, TLC

VARIABLES
    fld,        \* the field's parameter set (FftParameters + FpParameters)
    build,      \* "debug" | "release"
    pc,         \* which call has been made
    n_in,       \* a usize argument (n of get_root_of_unity, num_coeffs of new)
    elem,       \* a field-element argument (self of pow, tau)
    exp,        \* the limbs of an exponent, least significant limb first
    v,          \* the caller's vector, as passed in
    dom,        \* the Radix2EvaluationDomain built by new (or None)
    buf,        \* the caller's buffer, mutated in place
    out,        \* the value a call returned
    stage       \* serial_radix2_fft's butterfly stages, block by block

vars == <<fld, build, pc, n_in, elem, exp, v, dom, buf, out, stage>>

----------------------------------------------------------------------------
(* Bounds of the model. *)

\* bits of a usize (64 in the program, scaled)
UsizeBits == 6
\* bits of one u64 limb of an exponent (64 in the program, scaled)
LimbBits == 2
\* the longest exponent, in limbs
MaxLimbs == 2
\* bits of a u32 (32 in the program, scaled)
U32Bits == 5
\* the longest vector a caller passes
MaxLen == 5
\* the entries of a caller's vector are drawn from 0..MaxCoeff
MaxCoeff == 1
\* the entries of a vector to invert are drawn from 0..MaxElem and MODULUS-1
MaxElem == 3
\* the longest vector to invert
MaxBatchLen == 4
\* the largest log2 of a buffer whose butterfly stages are interleaved
MaxLogN == 3

----------------------------------------------------------------------------
(* Option and abort. *)

None == [tag |-> "None"]
Some(x) == [tag |-> "Some", val |-> x]
\* a call that aborted (panic)
Panic == [tag |-> "Panic"]

Pow2(k) == 2 ^ k

----------------------------------------------------------------------------
(* Field parameter sets: MODULUS - 1 = 2^TWO_ADICITY * t, t odd.           *)

\* 17 - 1 = 2^4; no small subgroup configured
Fp17 ==
    [MODULUS |-> 17, GENERATOR |-> 3, TWO_ADICITY |-> 4,
     TWO_ADIC_ROOT_OF_UNITY |-> 3,
     SMALL_SUBGROUP_BASE |-> None, SMALL_SUBGROUP_BASE_ADICITY |-> None,
     LARGE_SUBGROUP_ROOT_OF_UNITY |-> None]

\* 73 - 1 = 2^3 * 3^2; the large subgroup is the whole group
Fp73 ==
    [MODULUS |-> 73, GENERATOR |-> 5, TWO_ADICITY |-> 3,
     TWO_ADIC_ROOT_OF_UNITY |-> 10,
     SMALL_SUBGROUP_BASE |-> Some(3), SMALL_SUBGROUP_BASE_ADICITY |-> Some(2),
     LARGE_SUBGROUP_ROOT_OF_UNITY |-> Some(5)]

\* 61 - 1 = 2^2 * 3 * 5; the large subgroup has order 2^2 * 3
Fp61 ==
    [MODULUS |-> 61, GENERATOR |-> 2, TWO_ADICITY |-> 2,
     TWO_ADIC_ROOT_OF_UNITY |-> 11,
     SMALL_SUBGROUP_BASE |-> Some(3), SMALL_SUBGROUP_BASE_ADICITY |-> Some(1),
     LARGE_SUBGROUP_ROOT_OF_UNITY |-> Some(32)]

\* 41 - 1 = 2^3 * 5; no small subgroup configured
Fp41 ==
    [MODULUS |-> 41, GENERATOR |-> 6, TWO_ADICITY |-> 3,
     TWO_ADIC_ROOT_OF_UNITY |-> 27,
     SMALL_SUBGROUP_BASE |-> None, SMALL_SUBGROUP_BASE_ADICITY |-> None,
     LARGE_SUBGROUP_ROOT_OF_UNITY |-> None]

FieldParams == {Fp17, Fp41, Fp61, Fp73}

Builds == {"debug", "release"}

----------------------------------------------------------------------------
(* The Field capability: arithmetic on residues.                           *)

Elements == 0 .. (fld.MODULUS - 1)

zero == 0
one == 1
is_zero(a) == a = zero
is_one(a) == a = one

Add(a, b) == (a + b) % fld.MODULUS
Sub(a, b) == (a - b + fld.MODULUS) % fld.MODULUS
Mul(a, b) == (a * b) % fld.MODULUS
square(a) == Mul(a, a)

\* Field::inverse: None on zero, else the unique multiplicative inverse
inverse(a) ==
    IF is_zero(a) THEN None
    ELSE Some(CHOOSE x \in Elements : (a * x) % fld.MODULUS = 1)

\* From<u64>: an unsigned integer cast into the field
FromU64(x) == x % fld.MODULUS

two_adic_root_of_unity == fld.TWO_ADIC_ROOT_OF_UNITY
large_subgroup_root_of_unity == fld.LARGE_SUBGROUP_ROOT_OF_UNITY
multiplicative_generator == fld.GENERATOR

----------------------------------------------------------------------------
(* Field::pow over the bits of a limb-encoded exponent.                    *)

\* BitIterator::new(exp): the bits of the limbs, most significant first
BitIterator(limbs) ==
    LET total == Len(limbs) * LimbBits
    IN  [k \in 1 .. total |->
            LET n == total - k
                part == n \div LimbBits
                bit == n - LimbBits * part
            IN  (limbs[part + 1] \div Pow2(bit)) % 2 = 1]

RECURSIVE PowLoop(_, _, _, _, _)
PowLoop(self, bits, k, res, found_one) ==
    IF k > Len(bits) THEN res
    ELSE
        LET i == bits[k]
            res1 == IF found_one THEN square(res) ELSE res
            found1 == IF found_one THEN TRUE ELSE i
            res2 == IF i THEN Mul(res1, self) ELSE res1
        IN  PowLoop(self, bits, k + 1, res2, found1)

\* a mutation of pow: the multiplication by the base comes before the squaring
RECURSIVE PowLoopMulFirst(_, _, _, _, _)
PowLoopMulFirst(self, bits, k, res, found_one) ==
    IF k > Len(bits) THEN res
    ELSE
        LET i == bits[k]
            res1 == IF i THEN Mul(res, self) ELSE res
            res2 == IF found_one THEN square(res1) ELSE res1
            found1 == IF found_one THEN TRUE ELSE i
        IN  PowLoopMulFirst(self, bits, k + 1, res2, found1)

powMulFirst(self, limbs) ==
    PowLoopMulFirst(self, BitIterator(limbs), 1, one, FALSE)

pow(self, limbs) == PowLoop(self, BitIterator(limbs), 1, one, FALSE)

----------------------------------------------------------------------------
(* Initial values of the variables a specification does not use.           *)

NoStage == [m |-> 0]

----------------------------------------------------------------------------
(* Exponentiation: a.pow(exp) for every element and every limb sequence.   *)

Limbs == 0 .. (Pow2(LimbBits) - 1)

LimbSeqs == UNION {[1 .. l -> Limbs] : l \in 0 .. MaxLimbs}

InitPow ==
    /\ fld \in FieldParams
    /\ build = "release"
    /\ pc = "start"
    /\ n_in = 0
    /\ elem \in Elements
    /\ exp \in LimbSeqs
    /\ v = <<>>
    /\ dom = None
    /\ buf = <<>>
    /\ out = None
    /\ stage = NoStage

CallPow ==
    /\ pc = "start"
    /\ out' = Some(pow(elem, exp))
    /\ pc' = "pow"
    /\ UNCHANGED <<fld, build, n_in, elem, exp, v, dom, buf, stage>>

NextPow == CallPow

SpecPow == InitPow /\ [][NextPow]_vars

\* the integer a limb sequence encodes, least significant limb first
RECURSIVE LimbValue(_, _)
LimbValue(limbs, k) ==
    IF k > Len(limbs) THEN 0
    ELSE limbs[k] + Pow2(LimbBits) * LimbValue(limbs, k + 1)

\* the product of e copies of a (one for e = 0): the copies are multiplied
\* as a balanced tree, which keeps the recursion shallow
RECURSIVE RepeatedMul(_, _)
RepeatedMul(a, e) ==
    IF e = 0 THEN one
    ELSE IF e = 1 THEN a
    ELSE Mul(RepeatedMul(a, e \div 2), RepeatedMul(a, e - (e \div 2)))

\* C8: a.pow(exp) is a multiplied by itself e times, e the integer the
\* limbs encode (least significant limb first); empty and all-zero
\* exponents give one, also for a = zero.
C8_PowIsRepeatedMul ==
    pc = "pow" =>
        /\ out = Some(RepeatedMul(elem, LimbValue(exp, 1)))
        /\ (LimbValue(exp, 1) = 0 => out = Some(one))

\* zero raised to an exponent with a zero high limb, and zero to all-zero limbs
C8_Witness ==
    /\ pc = "pow"
    /\ Len(exp) = 2
    /\ exp[2] = 0
    /\ exp[1] = 3
    /\ elem = 5
    /\ out = Some(Mul(5, Mul(5, 5)))

----------------------------------------------------------------------------
(* Machine integers.                                                       *)

UsizeMax == Pow2(UsizeBits) - 1

Usize == 0 .. UsizeMax

\* the smallest power of two >= n, unbounded
RECURSIVE CeilPow2(_, _)
CeilPow2(n, p) == IF p >= n THEN p ELSE CeilPow2(n, 2 * p)

\* usize::next_power_of_two: when the result does not fit, a debug build
\* aborts and a release build returns 0
next_power_of_two(n) ==
    LET p == CeilPow2(n, 1)
    IN  IF p <= UsizeMax THEN Some(p)
        ELSE IF build = "debug" THEN Panic
        ELSE Some(0)

\* trailing_zeros of a usize/u64: the width for 0
RECURSIVE TrailingZerosLoop(_, _)
TrailingZerosLoop(x, r) ==
    IF x % 2 = 1 THEN r ELSE TrailingZerosLoop(x \div 2, r + 1)

trailing_zeros(x) == IF x = 0 THEN UsizeBits ELSE TrailingZerosLoop(x, 0)

\* utils::k_adicity(k, n): the largest r with k^r dividing n (0 for n <= 1)
RECURSIVE k_adicity_loop(_, _, _)
k_adicity_loop(k, n, r) ==
    IF n > 1 /\ n % k = 0 THEN k_adicity_loop(k, n \div k, r + 1) ELSE r

k_adicity(k, n) == k_adicity_loop(k, n, 0)

\* a u64 as the limbs of an exponent (one limb in the program; the scaled
\* limb is narrower, so the same integer may take several)
RECURSIVE U64Limbs(_)
U64Limbs(x) ==
    IF x < Pow2(LimbBits) THEN <<x>>
    ELSE <<x % Pow2(LimbBits)>> \o U64Limbs(x \div Pow2(LimbBits))

----------------------------------------------------------------------------
(* FftField::get_root_of_unity.                                            *)

\* f applied `times` times to omega, f being omega.pow([q])
RECURSIVE PowTimes(_, _, _)
PowTimes(omega, q, times) ==
    IF times <= 0 THEN omega
    ELSE PowTimes(pow(omega, U64Limbs(q)), q, times - 1)

\* omega.square_in_place() `times` times
RECURSIVE SquareTimes(_, _)
SquareTimes(omega, times) ==
    IF times <= 0 THEN omega ELSE SquareTimes(square(omega), times - 1)

\* a mutation: the small-subgroup levels are removed by squaring as well
RootOfUnityLargeSquares(n) ==
    LET q == fld.SMALL_SUBGROUP_BASE.val
        small_subgroup_base_adicity == fld.SMALL_SUBGROUP_BASE_ADICITY.val
        q_adicity == k_adicity(q, n)
        q_part == q ^ q_adicity
        two_adicity == k_adicity(2, n)
        two_part == Pow2(two_adicity)
    IN  IF \/ n # two_part * q_part
           \/ two_adicity > fld.TWO_ADICITY
           \/ q_adicity > small_subgroup_base_adicity
        THEN None
        ELSE Some(SquareTimes(
                    SquareTimes(large_subgroup_root_of_unity.val,
                                small_subgroup_base_adicity - q_adicity),
                    fld.TWO_ADICITY - two_adicity))

\* the branch taken when a large-subgroup root of unity is configured
RootOfUnityLarge(n) ==
    LET q == fld.SMALL_SUBGROUP_BASE.val
        small_subgroup_base_adicity == fld.SMALL_SUBGROUP_BASE_ADICITY.val
        q_adicity == k_adicity(q, n)
        q_part == q ^ q_adicity
        two_adicity == k_adicity(2, n)
        two_part == Pow2(two_adicity)
    IN  IF \/ n # two_part * q_part
           \/ two_adicity > fld.TWO_ADICITY
           \/ q_adicity > small_subgroup_base_adicity
        THEN None
        ELSE Some(SquareTimes(
                    PowTimes(large_subgroup_root_of_unity.val, q,
                             small_subgroup_base_adicity - q_adicity),
                    fld.TWO_ADICITY - two_adicity))

\* the branch taken otherwise: n must be a power of two
RootOfUnityTwoAdic(n) ==
    LET npt == next_power_of_two(n)
    IN  IF npt = Panic THEN Panic
        ELSE
            LET size == npt.val
                log_size_of_group == trailing_zeros(size)
            IN  IF n # size \/ log_size_of_group > fld.TWO_ADICITY
                THEN None
                ELSE Some(SquareTimes(two_adic_root_of_unity,
                                      fld.TWO_ADICITY - log_size_of_group))

get_root_of_unity(n) ==
    IF large_subgroup_root_of_unity # None
    THEN RootOfUnityLarge(n)
    ELSE RootOfUnityTwoAdic(n)

InitRoot ==
    /\ fld \in FieldParams
    /\ build \in Builds
    /\ pc = "start"
    /\ n_in \in Usize
    /\ elem = 0
    /\ exp = <<>>
    /\ v = <<>>
    /\ dom = None
    /\ buf = <<>>
    /\ out = None
    /\ stage = NoStage

CallGetRootOfUnity ==
    /\ pc = "start"
    /\ out' = get_root_of_unity(n_in)
    /\ pc' = "root"
    /\ UNCHANGED <<fld, build, n_in, elem, exp, v, dom, buf, stage>>

NextRoot == CallGetRootOfUnity

SpecRoot == InitRoot /\ [][NextRoot]_vars

\* n is a power of two (1 included)
IsPow2(n) == \E k \in 0 .. UsizeBits : n = Pow2(k)

\* x multiplied by itself k times is one, and no fewer times (k >= 1)
HasOrder(x, k) ==
    /\ k >= 1
    /\ RepeatedMul(x, k) = one
    /\ \A d \in 1 .. (k - 1) : RepeatedMul(x, d) # one

\* C5: with no large-subgroup root configured, get_root_of_unity(n) returns
\* a value exactly when n is a power of two with 1 <= n <= 2^TWO_ADICITY,
\* returns no value otherwise, and the value has order exactly n.
C5_TwoAdicRoot ==
    (pc = "root" /\ large_subgroup_root_of_unity = None) =>
        IF IsPow2(n_in) /\ n_in <= Pow2(fld.TWO_ADICITY)
        THEN out.tag = "Some" /\ HasOrder(out.val, n_in)
        ELSE out = None

\* C5, on the arguments whose next power of two fits a usize
C5_TwoAdicRootInRange ==
    (pc = "root" /\ large_subgroup_root_of_unity = None
        /\ n_in <= Pow2(UsizeBits - 1)) =>
        IF IsPow2(n_in) /\ n_in <= Pow2(fld.TWO_ADICITY)
        THEN out.tag = "Some" /\ HasOrder(out.val, n_in)
        ELSE out = None

\* the exact power of k dividing n (n >= 1)
RECURSIVE ExactPower(_, _)
ExactPower(k, n) == IF n % k = 0 THEN 1 + ExactPower(k, n \div k) ELSE 0

\* C9: with a large-subgroup root configured (base q, adicity k, two-adicity
\* s), get_root_of_unity(n) returns a value exactly when n = 2^i * q^j with
\* i <= s and j <= k, 2^i and q^j the exact powers of 2 and q dividing n;
\* no value for n = 0 or an n with another prime factor; the value has
\* order exactly n.
C9_LargeSubgroupRoot ==
    (pc = "root" /\ large_subgroup_root_of_unity # None) =>
        LET q == fld.SMALL_SUBGROUP_BASE.val
            k == fld.SMALL_SUBGROUP_BASE_ADICITY.val
            s == fld.TWO_ADICITY
            i == ExactPower(2, n_in)
            j == ExactPower(q, n_in)
        IN  IF n_in >= 1 /\ n_in = Pow2(i) * (q ^ j) /\ i <= s /\ j <= k
            THEN out.tag = "Some" /\ HasOrder(out.val, n_in)
            ELSE out = None

\* a root of order 2 * 3 is derived from the large root in both loops
C9_Witness ==
    /\ pc = "root"
    /\ fld = Fp73
    /\ n_in = 6
    /\ out.tag = "Some"
    /\ HasOrder(out.val, 6)

----------------------------------------------------------------------------
(* Radix2EvaluationDomain::new and compute_size_of_domain.                 *)

\* the domain new builds once the root of unity and the inverses exist
DomainOf(size, log_size_of_group, group_gen) ==
    LET size_as_field_element == FromU64(size)
        size_inv == inverse(size_as_field_element)
        group_gen_inv == inverse(group_gen)
        generator_inv == inverse(multiplicative_generator)
    IN  IF size_inv = None \/ group_gen_inv = None \/ generator_inv = None
        THEN None
        ELSE Some([size |-> size,
                   log_size_of_group |-> log_size_of_group,
                   size_as_field_element |-> size_as_field_element,
                   size_inv |-> size_inv.val,
                   group_gen |-> group_gen,
                   group_gen_inv |-> group_gen_inv.val,
                   generator_inv |-> generator_inv.val])

new(num_coeffs) ==
    LET npt == next_power_of_two(num_coeffs)
    IN  IF npt = Panic THEN Panic
        ELSE
            LET size == npt.val
                log_size_of_group == trailing_zeros(size)
            IN  IF log_size_of_group > fld.TWO_ADICITY THEN None
                ELSE
                    LET group_gen == get_root_of_unity(size)
                    IN  IF group_gen = None THEN None
                        ELSE IF group_gen = Panic THEN Panic
                        ELSE IF /\ build = "debug"
                                /\ pow(group_gen.val, U64Limbs(size)) # one
                        THEN Panic
                        ELSE DomainOf(size, log_size_of_group, group_gen.val)

compute_size_of_domain(num_coeffs) ==
    LET npt == next_power_of_two(num_coeffs)
    IN  IF npt = Panic THEN Panic
        ELSE IF trailing_zeros(npt.val) > fld.TWO_ADICITY THEN None
        ELSE Some(npt.val)

InitDomain ==
    /\ fld \in FieldParams
    /\ build \in Builds
    /\ pc = "start"
    /\ n_in \in Usize
    /\ elem = 0
    /\ exp = <<>>
    /\ v = <<>>
    /\ dom = None
    /\ buf = <<>>
    /\ out = None
    /\ stage = NoStage

CallNewDomain ==
    /\ pc = "start"
    /\ dom' = new(n_in)
    /\ pc' = "new"
    /\ UNCHANGED <<fld, build, n_in, elem, exp, v, buf, out, stage>>

CallComputeSizeOfDomain ==
    /\ pc = "new"
    /\ out' = compute_size_of_domain(n_in)
    /\ pc' = "new_size"
    /\ UNCHANGED <<fld, build, n_in, elem, exp, v, dom, buf, stage>>

NextDomain == CallNewDomain \/ CallComputeSizeOfDomain

SpecDomain == InitDomain /\ [][NextDomain]_vars

\* log2 of the smallest power of two >= n
CeilLog2(n) == CHOOSE k \in 0 .. (UsizeBits + 1) : Pow2(k) = CeilPow2(n, 1)

\* what the claim says of a domain new returned for num_coeffs
DomainWellFormed(d, num_coeffs) ==
    /\ d.size = CeilPow2(num_coeffs, 1)
    /\ d.size = Pow2(d.log_size_of_group)
    /\ HasOrder(d.group_gen, d.size)
    /\ Mul(d.group_gen, d.group_gen_inv) = one
    /\ Mul(d.size_as_field_element, d.size_inv) = one
    /\ Mul(d.generator_inv, multiplicative_generator) = one

\* C6: for every num_coeffs, new returns no value exactly when log2 of the
\* next power of two >= num_coeffs exceeds TWO_ADICITY, agreeing with
\* compute_size_of_domain; otherwise the domain has size the smallest power
\* of two >= num_coeffs, size = 2^log_size_of_group, group_gen of order
\* exactly size, and the three stored inverses are inverses.
C6_NewDomain ==
    pc = "new_size" =>
        IF CeilLog2(n_in) > fld.TWO_ADICITY
        THEN dom = None /\ out = None
        ELSE /\ dom.tag = "Some"
             /\ out = Some(dom.val.size)
             /\ DomainWellFormed(dom.val, n_in)

\* C6, on the sizes whose next power of two fits a usize
C6_NewDomainInRange ==
    (pc = "new_size" /\ n_in <= Pow2(UsizeBits - 1)) =>
        IF CeilLog2(n_in) > fld.TWO_ADICITY
        THEN dom = None /\ out = None
        ELSE /\ dom.tag = "Some"
             /\ out = Some(dom.val.size)
             /\ DomainWellFormed(dom.val, n_in)

----------------------------------------------------------------------------
(* The serial radix-2 kernel.                                              *)

\* utils::bitreverse(n, l): the low l bits of n in reverse order
RECURSIVE bitreverse_loop(_, _, _)
bitreverse_loop(n, l, r) ==
    IF l = 0 THEN r ELSE bitreverse_loop(n \div 2, l - 1, 2 * r + (n % 2))

bitreverse(n, l) == bitreverse_loop(n, l, 0)

\* a.swap(i, j), on 0-based indices
Swap(a, i, j) == [a EXCEPT ![i + 1] = a[j + 1], ![j + 1] = a[i + 1]]

\* for k in 0..n { let rk = bitreverse(k, log_n); if k < rk { a.swap(rk, k) } }
RECURSIVE BitReversalLoop(_, _, _, _)
BitReversalLoop(a, k, n, log_n) ==
    IF k >= n THEN a
    ELSE
        LET rk == bitreverse(k, log_n)
        IN  BitReversalLoop(IF k < rk THEN Swap(a, rk, k) ELSE a,
                            k + 1, n, log_n)

\* a mutation: the partner of k + j is its neighbour, not k + j + m
ButterflyIndicesAdjacent(k, j, m) == [lo |-> k + j, hi |-> k + j + 1]

\* the two 0-based indices butterfly (k, j) of block size m reads and writes
ButterflyIndices(k, j, m) == [lo |-> k + j, hi |-> k + j + m]

\* one butterfly: the body of `for j in 0..m`, on the pair (k+j, k+j+m)
Butterfly(a, k, j, m, w) ==
    LET ix == ButterflyIndices(k, j, m)
        t == Mul(a[ix.hi + 1], w)
        tmp == Sub(a[ix.lo + 1], t)
    IN  [a EXCEPT ![ix.hi + 1] = tmp, ![ix.lo + 1] = Add(a[ix.lo + 1], t)]

\* for j in 0..m { butterfly; w *= w_m }
RECURSIVE BlockLoop(_, _, _, _, _, _)
BlockLoop(a, k, j, m, w, w_m) ==
    IF j >= m THEN a
    ELSE BlockLoop(Butterfly(a, k, j, m, w), k, j + 1, m, Mul(w, w_m), w_m)

\* while k < n { let mut w = one; block; k += 2 * m }
RECURSIVE StageLoop(_, _, _, _, _)
StageLoop(a, k, n, m, w_m) ==
    IF k >= n THEN a
    ELSE StageLoop(BlockLoop(a, k, 0, m, one, w_m), k + 2 * m, n, m, w_m)

\* the stage twiddle: omega.pow([n / (2 * m)])
StageTwiddle(omega, n, m) == pow(omega, U64Limbs(n \div (2 * m)))

\* for _ in 0..log_n { stage; m *= 2 }
RECURSIVE StagesLoop(_, _, _, _, _, _)
StagesLoop(a, omega, n, m, s, log_n) ==
    IF s >= log_n THEN a
    ELSE StagesLoop(StageLoop(a, 0, n, m, StageTwiddle(omega, n, m)),
                    omega, n, 2 * m, s + 1, log_n)

\* 1 << log_n on a u32: a shift by the width or more aborts a debug build
\* and is taken modulo the width in a release build
Shl1U32(log_n) ==
    IF log_n < U32Bits THEN Some(Pow2(log_n))
    ELSE IF build = "debug" THEN Panic
    ELSE Some(Pow2(log_n % U32Bits))

\* a mutation: the bit-reversal permutation is left out
serial_radix2_fft_no_permutation(a, omega, log_n) ==
    LET n == Len(a) % Pow2(U32Bits)
        sh == Shl1U32(log_n)
    IN  IF sh = Panic \/ n # sh.val THEN Panic
        ELSE Some(StagesLoop(a, omega, n, 1, 0, log_n))

serial_radix2_fft(a, omega, log_n) ==
    LET n == Len(a) % Pow2(U32Bits)
        sh == Shl1U32(log_n)
    IN  IF sh = Panic \/ n # sh.val THEN Panic
        ELSE Some(StagesLoop(BitReversalLoop(a, 0, n, log_n),
                             omega, n, 1, 0, log_n))

\* utils::best_fft without the parallel feature: the serial kernel
best_fft(a, omega, log_n) == serial_radix2_fft(a, omega, log_n)

----------------------------------------------------------------------------
(* The transforms of the domain.                                           *)

\* Vec::resize(new_len, value): truncates, or pads with value
resize(a, new_len, value) ==
    IF Len(a) >= new_len THEN SubSeq(a, 1, new_len)
    ELSE a \o [i \in 1 .. (new_len - Len(a)) |-> value]

\* coeffs.resize(self.size(), T::zero()): the buffer the kernel is handed
resized(d, coeffs) == resize(coeffs, d.size, zero)

fft_in_place(d, coeffs) ==
    best_fft(resized(d, coeffs), d.group_gen, d.log_size_of_group)

\* a mutation: the outputs are not scaled by size_inv
ifft_in_place_unscaled(d, evals) ==
    best_fft(resize(evals, d.size, zero), d.group_gen_inv,
             d.log_size_of_group)

ifft_in_place(d, evals) ==
    LET r == best_fft(resized(d, evals), d.group_gen_inv,
                      d.log_size_of_group)
    IN  IF r = Panic THEN Panic
        ELSE Some([i \in 1 .. Len(r.val) |-> Mul(r.val[i], d.size_inv)])

\* EvaluationDomain::distribute_powers(coeffs, g): coeffs[i] *= g^i
RECURSIVE distribute_powers_loop(_, _, _, _)
distribute_powers_loop(coeffs, g, i, pw) ==
    IF i > Len(coeffs) THEN coeffs
    ELSE distribute_powers_loop([coeffs EXCEPT ![i] = Mul(coeffs[i], pw)],
                                g, i + 1, Mul(pw, g))

distribute_powers(coeffs, g) == distribute_powers_loop(coeffs, g, 1, one)

\* a mutation: the powers of the generator are distributed, not of its inverse
coset_ifft_in_place_generator(d, evals) ==
    LET r == ifft_in_place(d, evals)
    IN  IF r = Panic THEN Panic
        ELSE Some(distribute_powers(r.val, multiplicative_generator))

coset_ifft_in_place(d, evals) ==
    LET r == ifft_in_place(d, evals)
    IN  IF r = Panic THEN Panic
        ELSE Some(distribute_powers(r.val, d.generator_inv))

----------------------------------------------------------------------------
(* A caller that builds a domain and transforms its buffer in place.       *)

\* the spec's concrete scenario: coefficients [1, 2, 3, 4]
ScenarioCoeffs == <<1, 2, 3, 4>>

Vectors ==
    UNION {[1 .. l -> 0 .. MaxCoeff] : l \in 0 .. MaxLen} \cup {ScenarioCoeffs}

\* sum_j c[j] * x^j by direct evaluation (c[j] is the 0-based j-th entry)
RECURSIVE EvalPoly(_, _, _)
EvalPoly(c, x, j) ==
    IF j >= Len(c) THEN zero
    ELSE Add(Mul(c[j + 1], RepeatedMul(x, j)), EvalPoly(c, x, j + 1))

\* the evaluations of c over the coset g * H of the domain's subgroup H
CosetEvals(d, g, c) ==
    [i \in 1 .. d.size |->
        EvalPoly(c, Mul(g, RepeatedMul(d.group_gen, i - 1)), 0)]

Init ==
    /\ fld \in FieldParams
    /\ build \in Builds
    /\ pc = "start"
    /\ v \in Vectors
    /\ n_in \in 0 .. MaxLen
    /\ elem = 0
    /\ exp = <<>>
    /\ dom = None
    /\ buf = v
    /\ out = None
    /\ stage = NoStage

\* what a transform was called with (arg) and what it handed to the
\* butterfly kernel (a0) after its resize
HandedToKernel(d, a) == [m |-> 0, arg |-> a, a0 |-> resized(d, a)]

\* the caller's buffer after a transform returned r, or the abort
Returned(r, done) ==
    IF r = Panic
    THEN /\ out' = Panic
         /\ pc' = "panic"
         /\ UNCHANGED buf
    ELSE /\ buf' = r.val
         /\ pc' = done
         /\ UNCHANGED out

CallNew ==
    /\ pc = "start"
    /\ dom' = new(n_in)
    /\ pc' = "new"
    /\ UNCHANGED <<fld, build, n_in, elem, exp, v, buf, out, stage>>

CallFftInPlace ==
    /\ pc = "new"
    /\ dom.tag = "Some"
    /\ Returned(fft_in_place(dom.val, buf), "fft")
    /\ stage' = HandedToKernel(dom.val, buf)
    /\ UNCHANGED <<fld, build, n_in, elem, exp, v, dom>>

CallIfftInPlace ==
    /\ pc \in {"new", "fft"}
    /\ dom.tag = "Some"
    /\ Returned(ifft_in_place(dom.val, buf),
                IF pc = "fft" THEN "fft_ifft" ELSE "ifft")
    /\ stage' = HandedToKernel(dom.val, buf)
    /\ UNCHANGED <<fld, build, n_in, elem, exp, v, dom>>

\* the caller evaluates the polynomial with coefficients v over the coset
\* multiplicative_generator * H and puts the evaluations in the buffer
CallerEvaluatesOverCoset ==
    /\ pc = "new"
    /\ dom.tag = "Some"
    /\ Len(v) <= dom.val.size
    /\ buf' = CosetEvals(dom.val, multiplicative_generator, v)
    /\ pc' = "coset_evals"
    /\ UNCHANGED <<fld, build, n_in, elem, exp, v, dom, out, stage>>

CallCosetIfftInPlace ==
    /\ pc \in {"new", "coset_evals"}
    /\ dom.tag = "Some"
    /\ Returned(coset_ifft_in_place(dom.val, buf),
                IF pc = "coset_evals" THEN "coset_round_trip"
                ELSE "coset_ifft")
    /\ stage' = HandedToKernel(dom.val, buf)
    /\ UNCHANGED <<fld, build, n_in, elem, exp, v, dom>>

Next ==
    \/ CallNew
    \/ CallFftInPlace
    \/ CallIfftInPlace
    \/ CallerEvaluatesOverCoset
    \/ CallCosetIfftInPlace

Spec == Init /\ [][Next]_vars

\* C1: for D = new(L) and v of length L <= D.size, after D.fft_in_place(v)
\* the buffer has length D.size and entry i is the direct evaluation
\* sum_j v[j] * (group_gen^i)^j, in natural order.
C1_FftIsEvaluation ==
    (pc = "fft" /\ Len(v) <= dom.val.size) =>
        /\ Len(buf) = dom.val.size
        /\ \A i \in 0 .. (dom.val.size - 1) :
              buf[i + 1] = EvalPoly(v, RepeatedMul(dom.val.group_gen, i), 0)

\* the spec's scenario: [1, 2, 3, 4] on the domain of size 4
C1_Witness ==
    /\ pc = "fft"
    /\ v = ScenarioCoeffs
    /\ n_in = Len(v)
    /\ dom.val.size = 4
    /\ buf[1] = FromU64(10)
    /\ buf # v

\* C2: for v of length L and D = new(L), fft_in_place then ifft_in_place
\* leaves a buffer of length D.size: v followed by zeros.
C2_FftIfftRoundTrip ==
    (pc = "fft_ifft" /\ Len(v) <= dom.val.size) =>
        /\ Len(buf) = dom.val.size
        /\ \A i \in 1 .. dom.val.size :
              buf[i] = IF i <= Len(v) THEN v[i] ELSE zero

\* a vector of length 3 comes back padded with one zero
C2_Witness ==
    /\ pc = "fft_ifft"
    /\ n_in = 3
    /\ v = <<1, 0, 1>>
    /\ buf = <<1, 0, 1, 0>>

\* C7: if evals holds the evaluations of the polynomial with coefficients c
\* (length <= D.size) over the coset g * H, g the field's multiplicative
\* generator, then D.coset_ifft_in_place(evals) leaves c padded with zeros
\* to D.size.
C7_CosetIfftRecovers ==
    pc = "coset_round_trip" =>
        /\ Len(buf) = dom.val.size
        /\ \A i \in 1 .. dom.val.size :
              buf[i] = IF i <= Len(v) THEN v[i] ELSE zero

\* the scenario's coefficients recovered from their coset evaluations
C7_Witness ==
    /\ pc = "coset_round_trip"
    /\ v = ScenarioCoeffs
    /\ dom.val.size = 8
    /\ buf = <<1, 2, 3, 4, 0, 0, 0, 0>>

\* the buffer a transform handed to the kernel has the domain's size
C11_KernelInputHasDomainSize ==
    stage # NoStage => Len(stage.a0) = dom.val.size

\* C11: for every domain D and every caller buffer of any length (shorter
\* than, equal to or longer than D.size), the buffer fft_in_place and
\* ifft_in_place hand to the kernel holds every entry of the caller's
\* buffer at its original index, and every other entry of it is zero.
C11_ZeroPadBeforeKernel ==
    stage # NoStage =>
        /\ \A i \in 1 .. Len(stage.arg) :
              i <= Len(stage.a0) /\ stage.a0[i] = stage.arg[i]
        /\ \A i \in (Len(stage.arg) + 1) .. Len(stage.a0) :
              stage.a0[i] = zero

\* the same for the buffers that are not longer than the domain
C11_ZeroPadWhenNotLonger ==
    (stage # NoStage /\ Len(stage.arg) <= dom.val.size) =>
        /\ Len(stage.a0) = dom.val.size
        /\ \A i \in 1 .. dom.val.size :
              stage.a0[i] = IF i <= Len(stage.arg) THEN stage.arg[i] ELSE zero

\* a buffer longer than the domain is cut to the domain's size: the kernel
\* is handed its first D.size entries and the others are dropped
C11_LongerIsTruncated ==
    (stage # NoStage /\ Len(stage.arg) > dom.val.size) =>
        stage.a0 = SubSeq(stage.arg, 1, dom.val.size)

\* a buffer of three entries on the domain of size 2 reaches the kernel
\* without its last entry
C11_TruncationReached ==
    /\ pc \in {"fft", "ifft"}
    /\ dom.val.size = 2
    /\ stage.arg = <<1, 0, 1>>
    /\ stage.a0 = <<1, 0>>

----------------------------------------------------------------------------
(* batch_inversion.                                                        *)

\* first pass: the running products of the nonzero entries, [a, ab, abc, ..]
RECURSIVE FirstPass(_, _, _, _)
FirstPass(vec, i, tmp, prod) ==
    IF i > Len(vec) THEN prod
    ELSE IF is_zero(vec[i]) THEN FirstPass(vec, i + 1, tmp, prod)
    ELSE FirstPass(vec, i + 1, Mul(tmp, vec[i]),
                   Append(prod, Mul(tmp, vec[i])))

Reverse(q) == [i \in 1 .. Len(q) |-> q[Len(q) + 1 - i]]

\* prod.into_iter().rev().skip(1).chain(Some(F::one()))
Partners(prod) ==
    (IF prod = <<>> THEN <<>> ELSE Tail(Reverse(prod))) \o <<one>>

\* second pass: the nonzero entries from the back, zipped with ss from c on
RECURSIVE SecondPass(_, _, _, _, _)
SecondPass(vec, i, tmp, ss, c) ==
    IF i < 1 \/ c > Len(ss) THEN vec
    ELSE IF is_zero(vec[i]) THEN SecondPass(vec, i - 1, tmp, ss, c)
    ELSE
        LET new_tmp == Mul(tmp, vec[i])
        IN  SecondPass([vec EXCEPT ![i] = Mul(tmp, ss[c])],
                       i - 1, new_tmp, ss, c + 1)

\* a mutation: the second pass does not skip the zero entries
RECURSIVE SecondPassNoFilter(_, _, _, _, _)
SecondPassNoFilter(vec, i, tmp, ss, c) ==
    IF i < 1 \/ c > Len(ss) THEN vec
    ELSE
        LET new_tmp == Mul(tmp, vec[i])
        IN  SecondPassNoFilter([vec EXCEPT ![i] = Mul(tmp, ss[c])],
                               i - 1, new_tmp, ss, c + 1)

batch_inversion_no_filter(vec) ==
    LET prod == FirstPass(vec, 1, one, <<>>)
        acc == IF prod = <<>> THEN one ELSE prod[Len(prod)]
        inv == inverse(acc)
    IN  IF inv = None THEN Panic
        ELSE Some(SecondPassNoFilter(vec, Len(vec), inv.val,
                                     Partners(prod), 1))

\* the vector after batch_inversion(v), or the abort of inverse().unwrap()
batch_inversion(vec) ==
    LET prod == FirstPass(vec, 1, one, <<>>)
        acc == IF prod = <<>> THEN one ELSE prod[Len(prod)]
        inv == inverse(acc)
    IN  IF inv = None THEN Panic
        ELSE Some(SecondPass(vec, Len(vec), inv.val, Partners(prod), 1))

BatchElements == (0 .. MaxElem) \cup {fld.MODULUS - 1}

InitBatch ==
    /\ fld \in FieldParams
    /\ build = "release"
    /\ pc = "start"
    /\ n_in = 0
    /\ elem = 0
    /\ exp = <<>>
    /\ v \in UNION {[1 .. l -> BatchElements] : l \in 0 .. MaxBatchLen}
    /\ dom = None
    /\ buf = v
    /\ out = None
    /\ stage = NoStage

CallBatchInversion ==
    /\ pc = "start"
    /\ Returned(batch_inversion(buf), "batch")
    /\ UNCHANGED <<fld, build, n_in, elem, exp, v, dom, stage>>

NextBatch == CallBatchInversion

SpecBatch == InitBatch /\ [][NextBatch]_vars

\* C3: for every sequence v (empty, zeros, repeats), batch_inversion(v)
\* completes without aborting; a zero entry is unchanged and a nonzero
\* entry x is replaced by the y with x * y = one.
C3_BatchInversion ==
    /\ pc # "panic"
    /\ pc = "batch" =>
          /\ Len(buf) = Len(v)
          /\ \A i \in 1 .. Len(v) :
                IF v[i] = zero THEN buf[i] = zero
                ELSE Mul(v[i], buf[i]) = one

\* zeros between repeated nonzero entries
C3_Witness ==
    /\ pc = "batch"
    /\ v = <<2, 0, 2, 3>>
    /\ fld = Fp17
    /\ buf = <<9, 0, 9, 6>>

----------------------------------------------------------------------------
(* Radix2EvaluationDomain::evaluate_all_lagrange_coefficients.             *)

\* tau is a domain element: scan for the index i with group_gen^i = tau
RECURSIVE IndicatorScan(_, _, _, _, _)
IndicatorScan(d, tau, u, i, omega_i) ==
    IF i >= d.size THEN u
    ELSE IF omega_i = tau THEN [u EXCEPT ![i + 1] = one]
    ELSE IndicatorScan(d, tau, u, i + 1, Mul(omega_i, d.group_gen))

\* for i in 0..size { u[i] = tau - r; ls[i] = l; l *= gen; r *= gen }
RECURSIVE LagrangeFill(_, _, _, _, _, _)
LagrangeFill(d, tau, i, l, r, acc) ==
    IF i >= d.size THEN acc
    ELSE LagrangeFill(d, tau, i + 1, Mul(l, d.group_gen), Mul(r, d.group_gen),
                      [u |-> Append(acc.u, Sub(tau, r)),
                       ls |-> Append(acc.ls, l)])

\* a mutation: l is not advanced by the generator
evaluate_all_lagrange_coefficients_const_l(d, tau) ==
    LET t_size == pow(tau, U64Limbs(d.size))
    IN  IF is_one(t_size)
        THEN Some(IndicatorScan(d, tau, [i \in 1 .. d.size |-> zero], 0, one))
        ELSE
            LET l == Mul(Sub(t_size, one), d.size_inv)
                filled == LagrangeFill(d, tau, 0, l, one,
                                       [u |-> <<>>, ls |-> <<>>])
                inverted == batch_inversion(filled.u)
            IN  IF inverted = Panic THEN Panic
                ELSE Some([i \in 1 .. d.size |->
                              Mul(l, inverted.val[i])])

evaluate_all_lagrange_coefficients(d, tau) ==
    LET t_size == pow(tau, U64Limbs(d.size))
    IN  IF is_one(t_size)
        THEN Some(IndicatorScan(d, tau, [i \in 1 .. d.size |-> zero], 0, one))
        ELSE
            LET l == Mul(Sub(t_size, one), d.size_inv)
                filled == LagrangeFill(d, tau, 0, l, one,
                                       [u |-> <<>>, ls |-> <<>>])
                inverted == batch_inversion(filled.u)
            IN  IF inverted = Panic THEN Panic
                ELSE Some([i \in 1 .. d.size |->
                              Mul(filled.ls[i], inverted.val[i])])

InitLagrange ==
    /\ fld \in FieldParams
    /\ build = "release"
    /\ pc = "start"
    /\ n_in \in 0 .. (2 * MaxLen)
    /\ elem \in Elements
    /\ exp = <<>>
    /\ v = <<>>
    /\ dom = None
    /\ buf = <<>>
    /\ out = None
    /\ stage = NoStage

CallEvaluateAllLagrangeCoefficients ==
    /\ pc = "new"
    /\ dom.tag = "Some"
    /\ out' = evaluate_all_lagrange_coefficients(dom.val, elem)
    /\ pc' = "lagrange"
    /\ UNCHANGED <<fld, build, n_in, elem, exp, v, dom, buf, stage>>

NextLagrange == CallNew \/ CallEvaluateAllLagrangeCoefficients

SpecLagrange == InitLagrange /\ [][NextLagrange]_vars

\* a / b for b nonzero
Div(a, b) == Mul(a, inverse(b).val)

\* the product of (x - w^j) / (w^i - w^j) over j # i, j from `j` on
RECURSIVE LagrangeProduct(_, _, _, _)
LagrangeProduct(d, i, x, j) ==
    IF j >= d.size THEN one
    ELSE IF j = i THEN LagrangeProduct(d, i, x, j + 1)
    ELSE Mul(Div(Sub(x, RepeatedMul(d.group_gen, j)),
                 Sub(RepeatedMul(d.group_gen, i),
                     RepeatedMul(d.group_gen, j))),
             LagrangeProduct(d, i, x, j + 1))

\* L_i(x): the polynomial of degree < size that is 1 at group_gen^i and 0
\* at the other domain elements
LagrangeBasis(d, i, x) == LagrangeProduct(d, i, x, 0)

RECURSIVE SumSeq(_, _)
SumSeq(q, i) == IF i > Len(q) THEN zero ELSE Add(q[i], SumSeq(q, i + 1))

\* C4: evaluate_all_lagrange_coefficients(tau) has length size and entry i
\* is L_i(tau); the entries sum to one; for tau = group_gen^k it is the
\* indicator vector with the 1 at index k.
C4_LagrangeCoefficients ==
    pc = "lagrange" =>
        /\ out.tag = "Some"
        /\ Len(out.val) = dom.val.size
        /\ \A i \in 0 .. (dom.val.size - 1) :
              out.val[i + 1] = LagrangeBasis(dom.val, i, elem)
        /\ SumSeq(out.val, 1) = one
        /\ \A k \in 0 .. (dom.val.size - 1) :
              elem = RepeatedMul(dom.val.group_gen, k) =>
                 out.val = [i \in 1 .. dom.val.size |->
                               IF i = k + 1 THEN one ELSE zero]

\* a tau outside the domain of size 4: the general formula, with all
\* four coefficients nonzero
C4_Witness ==
    /\ pc = "lagrange"
    /\ dom.val.size = 4
    /\ RepeatedMul(elem, 4) # one
    /\ \A i \in 1 .. 4 : out.val[i] # zero
    /\ SumSeq(out.val, 1) = one

----------------------------------------------------------------------------
(* The butterfly stages of serial_radix2_fft, block by block.              *)
(*                                                                         *)
(* The blocks of one stage (the `while k < n` iterations) are interleaved  *)
(* in every order; the next stage starts when every block is finished.     *)
(* Buffer a is processed behind that barrier.  Buffer e follows the same   *)
(* schedule, except that one butterfly of the next stage may run on it     *)
(* before the current stage has finished.                                  *)

\* the block starts of a stage: k = 0, 2m, 4m, .. < n
StageBlocks(n, m) == {k \in 0 .. (n - 1) : k % (2 * m) = 0}

\* the inputs of the kernel: arithmetic progressions c * i + d in the field
StageInputs(n) ==
    {[i \in 1 .. n |-> FromU64(c * i + d)] :
        c \in 0 .. MaxCoeff, d \in 0 .. MaxCoeff}

\* the state at `let mut m = 1`, and at the start of each later stage
StageStart(a, e, n, log_n, omega, s, m, early) ==
    [a |-> a, e |-> e, a0 |-> a, n |-> n, log_n |-> log_n, omega |-> omega,
     s |-> s, m |-> m, w_m |-> StageTwiddle(omega, n, m),
     prog |-> [k \in StageBlocks(n, m) |-> [j |-> 0, w |-> one]],
     touched |-> [i \in 0 .. (n - 1) |-> 0],
     early |-> early]

InitStage ==
    /\ fld \in FieldParams
    /\ build = "release"
    /\ pc = "stages"
    /\ n_in \in 1 .. MaxLogN
    /\ n_in <= fld.TWO_ADICITY
    /\ elem = get_root_of_unity(Pow2(n_in)).val
    /\ exp = <<>>
    /\ v \in StageInputs(Pow2(n_in))
    /\ dom = None
    /\ buf = <<>>
    /\ out = None
    /\ stage = StageStart(BitReversalLoop(v, 0, Pow2(n_in), n_in),
                          BitReversalLoop(v, 0, Pow2(n_in), n_in),
                          Pow2(n_in), n_in, elem, 0, 1, None)

StageComplete == \A k \in DOMAIN stage.prog : stage.prog[k].j >= stage.m

\* the next butterfly of block k: one iteration of `for j in 0..m`
StepBlock(k) ==
    LET j == stage.prog[k].j
        w == stage.prog[k].w
        m == stage.m
        ran_early == stage.early = Some([m |-> m, k |-> k, j |-> j])
    IN  /\ pc = "stages"
        /\ j < m
        /\ stage' = [stage EXCEPT
              !.a = Butterfly(stage.a, k, j, m, w),
              !.e = IF ran_early THEN stage.e
                    ELSE Butterfly(stage.e, k, j, m, w),
              !.prog[k] = [j |-> j + 1, w |-> Mul(w, stage.w_m)],
              !.touched[ButterflyIndices(k, j, m).lo] = @ + 1,
              !.touched[ButterflyIndices(k, j, m).hi] = @ + 1]
        /\ UNCHANGED <<fld, build, pc, n_in, elem, exp, v, dom, buf, out>>

\* `m *= 2` and the next iteration of `for _ in 0..log_n`
NextStage ==
    /\ pc = "stages"
    /\ StageComplete
    /\ stage.s + 1 < stage.log_n
    /\ stage' = StageStart(stage.a, stage.e, stage.n, stage.log_n,
                           stage.omega, stage.s + 1, 2 * stage.m, stage.early)
    /\ UNCHANGED <<fld, build, pc, n_in, elem, exp, v, dom, buf, out>>

\* the loop over the stages ends
Return ==
    /\ pc = "stages"
    /\ StageComplete
    /\ stage.s + 1 >= stage.log_n
    /\ pc' = "done"
    /\ UNCHANGED <<fld, build, n_in, elem, exp, v, dom, buf, out, stage>>

\* butterfly (k, j) of the next stage runs on e before this stage finished
EarlyButterfly(k, j) ==
    LET m2 == 2 * stage.m
        w == RepeatedMul(StageTwiddle(stage.omega, stage.n, m2), j)
    IN  /\ pc = "stages"
        /\ stage.early = None
        /\ ~StageComplete
        /\ stage.s + 1 < stage.log_n
        /\ stage' = [stage EXCEPT
              !.e = Butterfly(stage.e, k, j, m2, w),
              !.early = Some([m |-> m2, k |-> k, j |-> j])]
        /\ UNCHANGED <<fld, build, pc, n_in, elem, exp, v, dom, buf, out>>

NextStages ==
    \/ \E k \in DOMAIN stage.prog : StepBlock(k)
    \/ NextStage
    \/ Return
    \/ \E k \in StageBlocks(stage.n, 2 * stage.m) :
          \E j \in 0 .. (2 * stage.m - 1) : EarlyButterfly(k, j)

SpecStages == InitStage /\ [][NextStages]_vars

\* C10: within one stage the butterflies touch pairwise disjoint index
\* pairs that cover every index exactly once, so the buffer at the end of
\* the stage (and of the kernel) is that of the serial order for every
\* interleaving of the stage's blocks.  (That a butterfly of stage s+1 run
\* before stage s has finished can change the final result is the
\* reachability of C10_Witness.)
C10_StageOrderIndependent ==
    pc \in {"stages", "done"} =>
        /\ \A i \in 0 .. (stage.n - 1) : stage.touched[i] <= 1
        /\ StageComplete =>
              /\ \A i \in 0 .. (stage.n - 1) : stage.touched[i] = 1
              /\ stage.a = StageLoop(stage.a0, 0, stage.n, stage.m, stage.w_m)
        /\ pc = "done" =>
              Some(stage.a) = serial_radix2_fft(v, stage.omega, stage.log_n)

\* the kernel has returned: behind the barrier the buffer is the serial
\* result, and with one early butterfly it is not
C10_Witness ==
    /\ pc = "done"
    /\ stage.log_n >= 2
    /\ stage.early # None
    /\ Some(stage.a) = serial_radix2_fft(v, stage.omega, stage.log_n)
    /\ Some(stage.e) # serial_radix2_fft(v, stage.omega, stage.log_n)

====
